---- MODULE Spec2Model ----
(***************************************************************************)
(* A model of the class NewDataset of TagLab (source/NewDataset.py): the   *)
(* choice of the validation and test areas of a map (setupAreas,           *)
(* findAreas), the sampling of the tile centres (cut_tiles,                *)
(* sampleAreaUniformly, sampleAreaImportanceSampling), the cleaning of    *)
(* the training tiles (cleanTrainingTiles), the radius of each class index *)
(* (computeFrequencies, compute_radius_map) and bbox_intersection.         *)
(*                                                                         *)
(* Numbers.  The code mixes Python ints and floats (map_h * 0.15,          *)
(* tile_size / 2, (crop_size + 10) / 2).  Every length of the model is an  *)
(* integer number of tenths of a pixel, every area an integer number of    *)
(* hundredths of a square pixel; the map sizes drawn in Init are even, so  *)
(* that 0.7, 0.85 and 0.15 of them are whole tenths and no product is      *)
(* rounded.  int(x) truncates toward zero, as in Python.                   *)
(***************************************************************************)
EXTENDS Integers, Sequences, FiniteSets, TLC

VARIABLES
    map_w, map_h,       \* self.orthoimage.width(), .height()
    tile_size, step,    \* constructor arguments
    val_area, test_area,                          \* (top, left, width, height)
    training_tiles, validation_tiles, test_tiles, \* lists of (x, y)
    cleaned_tiles,      \* the list returned by the last cleanTrainingTiles
    clean_arg,          \* ... and the list it was given
    pc,                 \* "idle", or the loop the running call is in
    last,               \* the call that was started last
    outcome,            \* how the last finished call ended
    j, loc_val, loc_test, \* locals of setupAreas in RANDOM mode
    blobs,              \* self.blobs
    norm,               \* self.sn_min, sn_max, sc_min, sc_max, sP_min, sP_max
    i,                  \* the loop counter of the running call
    sn, sc, sP,         \* locals of findAreas: the Phase-1 lists
    area_info,          \* local of findAreas: the Phase-2 candidates
    found,              \* the pair findAreas returned
    radius_map,         \* self.radius_map
    rng,                \* the stream the random module draws from
    frequencies,        \* self.frequencies
    radius_arg,         \* what the last compute_radius_map worked on
    box_args,           \* the two boxes of the last bbox_intersection
    intersection_area,  \* ... and what it returned
    sample_area,        \* the area given to sampleAreaImportanceSampling
    samples             \* its local list, and the list it returned

cfg == <<map_w, map_h, tile_size, step, blobs, radius_map, rng, frequencies,
        radius_arg, box_args, intersection_area>>
areav == <<val_area, test_area>>
tilev == <<training_tiles, validation_tiles, test_tiles>>
cleanv == <<cleaned_tiles, clean_arg>>
randv == <<j, loc_val, loc_test>>
searchv == <<sn, sc, sP, area_info, found>>
samplev == <<sample_area, samples>>

vars == <<cfg, areav, tilev, cleanv, pc, last, outcome, randv, norm, i,
          searchv, samplev>>

----------------------------------------------------------------------------
(* Bounds of the model *)

\* iterations of the RANDOM loop of setupAreas (range(1000) in the code)
RandomTrials == 2
\* random.randint(lo, hi) is drawn from RandGrid + 1 evenly spread values
RandGrid == 1
\* iterations of the two loops of findAreas (range(500), range(5000))
Phase1Trials == 2
Phase2Trials == 2
\* iterations of the loops of importanceSamplingBlob and
\* importanceSamplingSubArea (range(30))
SampleTries == 1
\* the calls modelled as one step draw their random numbers from the stream
\* of the run, one of the streams 0..MaxSeed
MaxSeed == 1

----------------------------------------------------------------------------
(* Arithmetic *)

\* tenths of a pixel in one pixel
Unit == 10

Px(n) == n * Unit

\* F(x), with x computed once
With(x, F(_)) == CHOOSE result \in { F(value) : value \in {x} } : TRUE

Max(a, b) == IF a >= b THEN a ELSE b
Min(a, b) == IF a <= b THEN a ELSE b

\* int(a / b) for b > 0: the quotient truncated toward zero
TruncDiv(a, b) == IF a >= 0 THEN a \div b ELSE -((-a) \div b)

\* int(x / 2) and int(x / 2.0) of a length x, as a length
IntHalf(x) == TruncDiv(x, 2 * Unit) * Unit

\* x * (num / den), for the x whose product is a whole number of tenths
Times(x, num, den) == (x * num) \div den

\* int(math.sqrt(0.15) * n) of a length n of whole pixels
AreaSide(n) == Px(((n \div Unit) * 387298) \div 1000000)

\* the i-th of the values random.randint(lo, hi) is drawn from (whole pixels)
RandIntAt(lo, hi, n) == lo + Px((n * ((hi - lo) \div Unit)) \div RandGrid)

\* the values random.randint(lo, hi) is drawn from; none when hi < lo
\* (randint raises ValueError)
RandInt(lo, hi) ==
    IF hi < lo THEN {} ELSE { RandIntAt(lo, hi, n) : n \in 0..RandGrid }

\* the random streams: the k-th draw of stream seed among n values
Seeds == 0..MaxSeed
Draw(seed, k, n) == ((seed \div (n ^ (k % 4))) + k \div 4) % n

\* the k-th draw of a stream, as a random.randint(lo, hi)
RandIntOf(seed, k, lo, hi) == RandIntAt(lo, hi, Draw(seed, k, RandGrid + 1))

----------------------------------------------------------------------------
(* Geometry *)

\* self.crop_size = 513
crop_size == Px(513)

\* the thresholds on an intersection area: 10.0 and 1.0 square pixels
Area10 == 10 * Unit * Unit
Area1 == 1 * Unit * Unit

UnsetArea == <<0, 0, 0, 0>>

\* bbox_intersection without its test for an empty intersection
bbox_intersectionUnchecked(bbox1, bbox2) ==
    LET bb1 == <<bbox1[2], bbox1[1], bbox1[2] + bbox1[3], bbox1[1] + bbox1[4]>>
        bb2 == <<bbox2[2], bbox2[1], bbox2[2] + bbox2[3], bbox2[1] + bbox2[4]>>
        x_left == Max(bb1[1], bb2[1])
        y_top == Max(bb1[2], bb2[2])
        x_right == Min(bb1[3], bb2[3])
        y_bottom == Min(bb1[4], bb2[4])
    IN  (x_right - x_left) * (y_bottom - y_top)

bbox_intersection(bbox1, bbox2) ==
    LET bb1 == <<bbox1[2], bbox1[1], bbox1[2] + bbox1[3], bbox1[1] + bbox1[4]>>
        bb2 == <<bbox2[2], bbox2[1], bbox2[2] + bbox2[3], bbox2[1] + bbox2[4]>>
        x_left == Max(bb1[1], bb2[1])
        y_top == Max(bb1[2], bb2[2])
        x_right == Min(bb1[3], bb2[3])
        y_bottom == Min(bb1[4], bb2[4])
    IN  IF x_right < x_left \/ y_bottom < y_top
        THEN 0
        ELSE (x_right - x_left) * (y_bottom - y_top)

----------------------------------------------------------------------------
(* sampleAreaUniformly *)

sampleAreaUniformly(area, tsize, stp) ==
    LET area_W == area[3]
        area_H == area[4]
        tile_cols == 1 + TruncDiv(area_W, stp)
        tile_rows == 1 + TruncDiv(area_H, stp)
        deltaW == IntHalf(area_W - tile_cols * stp)
        deltaH == IntHalf(area_H - tile_rows * stp)
        area_top == area[1] + deltaH - IntHalf(tsize - crop_size)
        area_left == area[2] + deltaW - IntHalf(tsize - crop_size)
    IN  IF tile_cols <= 0 \/ tile_rows <= 0
        THEN << >>
        ELSE [k \in 1..(tile_rows * tile_cols) |->
                LET row == (k - 1) \div tile_cols
                    col == (k - 1) % tile_cols
                    top == area_top + row * stp
                    left == area_left + col * stp
                IN  <<left + tsize \div 2, top + tsize \div 2>>]

----------------------------------------------------------------------------
(* cleanTrainingTiles *)

\* the box of side crop_size + 10 centred on a tile
CleanBox(tile) ==
    LET size == crop_size + Px(10)
        half_size == size \div 2
    IN  <<tile[2] - half_size, tile[1] - half_size, size, size>>

\* the test of cleanTrainingTiles without its second half
KeptByCleaningValOnly(tile, varea, tarea) ==
    LET areaV == bbox_intersection(CleanBox(tile), varea)
    IN  areaV < Area10

KeptByCleaning(tile, varea, tarea) ==
    LET areaV == bbox_intersection(CleanBox(tile), varea)
        areaT == bbox_intersection(CleanBox(tile), tarea)
    IN  areaV < Area10 /\ areaT < Area10

RECURSIVE CleanLoop(_, _, _, _)
CleanLoop(tiles, cleaned, varea, tarea) ==
    IF tiles = << >> THEN cleaned
    ELSE CleanLoop(Tail(tiles),
                   IF KeptByCleaning(Head(tiles), varea, tarea)
                   THEN Append(cleaned, Head(tiles)) ELSE cleaned,
                   varea, tarea)

cleanTrainingTiles(tiles, varea, tarea) == CleanLoop(tiles, << >>, varea, tarea)

----------------------------------------------------------------------------
(* Floating-point values of the scored search *)

\* The metrics and the scores are fixed-point numbers with SC units in 1.
\* A quotient of numpy floats is not always a number: x / 0.0 is nan when
\* x = 0 and +inf or -inf otherwise, with a warning and no exception.
SC == 100

Fin(x) == [t |-> "fin", v |-> x]
NaN == [t |-> "nan", v |-> 0]
Inf(sign) == [t |-> "inf", v |-> sign]

Abs(x) == IF x >= 0 THEN x ELSE -x

\* a / b of two numbers, b >= 0
FDiv(a, b) ==
    IF b = 0
    THEN IF a = 0 THEN NaN ELSE IF a > 0 THEN Inf(1) ELSE Inf(-1)
    ELSE Fin(TruncDiv(a * SC, b))

FAdd(a, b) ==
    IF a.t = "nan" \/ b.t = "nan" THEN NaN
    ELSE IF a.t = "inf" /\ b.t = "inf" THEN (IF a.v = b.v THEN a ELSE NaN)
    ELSE IF a.t = "inf" THEN a
    ELSE IF b.t = "inf" THEN b
    ELSE Fin(a.v + b.v)

\* a / n for a positive number n
FDivN(a, n) == IF a.t = "fin" THEN Fin(TruncDiv(a.v, n)) ELSE a

\* a < b: false whenever one of them is nan
FLess(a, b) ==
    /\ a.t # "nan"
    /\ b.t # "nan"
    /\ IF a.t = b.t THEN a.v < b.v
       ELSE IF a.t = "inf" THEN a.v < 0
       ELSE b.v > 0

RECURSIVE ISqrtIn(_, _, _)
ISqrtIn(x, lo, hi) ==
    IF lo >= hi THEN lo
    ELSE LET mid == (lo + hi + 1) \div 2
         IN  IF mid * mid <= x THEN ISqrtIn(x, mid, hi) ELSE ISqrtIn(x, lo, mid - 1)

\* the integer part of the square root
ISqrt(x) == ISqrtIn(x, 0, 46340)

RECURSIVE SeqSum(_)
SeqSum(q) == IF q = << >> THEN 0 ELSE Head(q) + SeqSum(Tail(q))

RECURSIVE SeqSumSq(_)
SeqSumSq(q) == IF q = << >> THEN 0 ELSE Head(q) * Head(q) + SeqSumSq(Tail(q))

----------------------------------------------------------------------------
(* list.sort(key=...) *)

\* CPython sorts a list of fewer than 64 items by finding the run the list
\* starts with (reversed when strictly descending) and inserting the other
\* items one by one at the place a binary search gives, with no comparison
\* but key(a) < key(b).  On keys that are numbers this is the stable
\* ascending sort.
KeyLess(a, b) == FLess(a.aggregated_score, b.aggregated_score)

RECURSIVE RunEnd(_, _, _)
RunEnd(q, n, descending) ==
    IF n = Len(q) THEN n
    ELSE IF KeyLess(q[n + 1], q[n]) = descending
         THEN RunEnd(q, n + 1, descending)
         ELSE n

Reverse(q) == [k \in 1..Len(q) |-> q[Len(q) + 1 - k]]

RECURSIVE BinaryPlace(_, _, _, _)
BinaryPlace(q, pivot, l, r) ==
    IF l >= r THEN l
    ELSE LET p == l + (r - l) \div 2
         IN  IF KeyLess(pivot, q[p])
             THEN BinaryPlace(q, pivot, l, p)
             ELSE BinaryPlace(q, pivot, p + 1, r)

RECURSIVE BinarySort(_, _)
BinarySort(q, start) ==
    IF start > Len(q) THEN q
    ELSE LET pivot == q[start]
             l == BinaryPlace(q, pivot, 1, start)
             moved == [k \in 1..Len(q) |->
                         IF k < l \/ k > start THEN q[k]
                         ELSE IF k = l THEN pivot
                         ELSE q[k - 1]]
         IN  BinarySort(moved, start + 1)

ListSort(q) ==
    IF Len(q) < 2 THEN q
    ELSE LET descending == KeyLess(q[2], q[1])
             n == RunEnd(q, 2, descending)
             run == IF descending
                    THEN Reverse(SubSeq(q, 1, n)) \o SubSeq(q, n + 1, Len(q))
                    ELSE q
         IN  BinarySort(run, n + 1)

----------------------------------------------------------------------------
(* The landscape metrics *)

target_classes == <<"Montipora_capitata", "Porite_massive">>

NumClasses == Len(target_classes)

Blob(class_name, top, left, w, h, area, mask) ==
    [class_name |-> class_name, bbox |-> <<Px(top), Px(left), Px(w), Px(h)>>,
     area |-> area, mask |-> mask]

\* checkBlobInside(area, blob, 3.0/4.0)
checkBlobInside(area, blob) ==
    4 * bbox_intersection(area, blob.bbox) > 3 * (blob.bbox[3] * blob.bbox[4])

\* the sum of the areas of the blobs of a class: computeFrequencies divides
\* it by the area of the map
RECURSIVE ClassArea(_, _, _)
ClassArea(bs, class_name, k) ==
    IF k > Len(bs) THEN 0
    ELSE (IF bs[k].class_name = class_name THEN bs[k].area ELSE 0)
         + ClassArea(bs, class_name, k + 1)

\* the list "areas" of calculateMetrics, from the k-th blob on
RECURSIVE AreasInside(_, _, _, _)
AreasInside(bs, area, class_name, k) ==
    IF k > Len(bs) THEN << >>
    ELSE (IF bs[k].class_name = class_name /\ checkBlobInside(area, bs[k])
          THEN <<bs[k].area>> ELSE << >>)
         \o AreasInside(bs, area, class_name, k + 1)

\* the pixels of a class in the window of an area: the label image shows
\* each blob as its bounding box, and the blobs of a map do not overlap
RECURSIVE ClassPixels(_, _, _, _)
ClassPixels(bs, area, class_name, k) ==
    IF k > Len(bs) THEN 0
    ELSE (IF bs[k].class_name = class_name
          THEN bbox_intersection(area, bs[k].bbox) \div (Unit * Unit) ELSE 0)
         + ClassPixels(bs, area, class_name, k + 1)

\* computeExactCoverage, times 100
computeExactCoverage(bs, area) ==
    LET A == (area[3] * area[4]) \div (Unit * Unit)
    IN  [c \in 1..NumClasses |->
            (ClassPixels(bs, area, target_classes[c], 1) * 100 * SC) \div A]

\* Patch Size Coefficient of Variation: 100 * std / mean
PSCVOf(as) ==
    IF Len(as) = 0 THEN 0
    ELSE (100 * SC * ISqrt(Len(as) * SeqSumSq(as) - SeqSum(as) * SeqSum(as)))
         \div SeqSum(as)

calculateMetrics(bs, area) ==
    LET as == [c \in 1..NumClasses |->
                 IF ClassArea(bs, target_classes[c], 1) > 0
                 THEN AreasInside(bs, area, target_classes[c], 1)
                 ELSE << >>]
    IN  [number |-> [c \in 1..NumClasses |-> Len(as[c])],
         coverage |-> computeExactCoverage(bs, area),
         PSCV |-> [c \in 1..NumClasses |-> PSCVOf(as[c])]]

\* the three distances of rangeScore, calculateScore and
\* calculateNormalizedScore, for a class with landscape_number > 0
S1(m, land, c) == Abs((m.number[c] * 100 * SC) \div land.number[c] - 15 * SC)
S2(m, land, c) == Abs(m.coverage[c] - land.coverage[c])
S3(m, land, c) == Abs(m.PSCV[c] - land.PSCV[c])

rangeScore(m, land) ==
    [s1 |-> [c \in 1..NumClasses |-> IF land.number[c] > 0 THEN S1(m, land, c) ELSE 0],
     s2 |-> [c \in 1..NumClasses |-> IF land.number[c] > 0 THEN S2(m, land, c) ELSE 0],
     s3 |-> [c \in 1..NumClasses |-> IF land.number[c] > 0 THEN S3(m, land, c) ELSE 0]]

calculateNormalizedScore(m, land, nm) ==
    [c \in 1..NumClasses |->
        IF land.number[c] > 0
        THEN LET n1 == FDiv(S1(m, land, c) - nm.sn_min[c], nm.sn_max[c] - nm.sn_min[c])
                 n2 == FDiv(S2(m, land, c) - nm.sc_min[c], nm.sc_max[c] - nm.sc_min[c])
                 n3 == FDiv(S3(m, land, c) - nm.sP_min[c], nm.sP_max[c] - nm.sP_min[c])
             IN  FDivN(FAdd(FAdd(n1, n2), n3), 3)
        ELSE Fin(0)]

RECURSIVE FSum(_)
FSum(q) == IF q = << >> THEN Fin(0) ELSE FAdd(Head(q), FSum(Tail(q)))

\* np.min and np.max along axis 0 of a list of per-class lists
ColMin(q, c) == CHOOSE x \in {q[k][c] : k \in 1..Len(q)} :
                    \A y \in {q[k][c] : k \in 1..Len(q)} : x <= y
ColMax(q, c) == CHOOSE x \in {q[k][c] : k \in 1..Len(q)} :
                    \A y \in {q[k][c] : k \in 1..Len(q)} : x >= y

\* uniform(0.4, 2.5) is drawn from these fractions <<numerator, denominator>>
AspectFactorSeq == << <<2, 5>>, <<1, 1>>, <<5, 2>> >>
AspectFactors == { AspectFactorSeq[k] : k \in 1..Len(AspectFactorSeq) }

\* w = int(area_w / factor), h = int(area_h * factor)
RegionW(f) == Px(((AreaSide(map_w) \div Unit) * f[2]) \div f[1])
RegionH(f) == Px(((AreaSide(map_h) \div Unit) * f[1]) \div f[2])

----------------------------------------------------------------------------
(* The object and its calls *)

\* the maps and the constructor arguments of the model, in pixels
\* the annotated entities of the maps of the model: three colonies of one
\* class, one or two of the other
Reef ==
    <<Blob("Montipora_capitata", 50, 50, 100, 100, 5000, "full"),
      Blob("Montipora_capitata", 700, 700, 100, 100, 3000, "full"),
      Blob("Montipora_capitata", 60, 800, 80, 80, 2000, "full"),
      Blob("Porite_massive", 800, 100, 50, 50, 1000, "notch"),
      Blob("Porite_massive", 500, 60, 60, 60, 1500, "full")>>

SmallReef == SubSeq(Reef, 1, 4)

\* the radius, in pixels, of the background and of the two target classes;
\* << >> is the radius_map of an object whose compute_radius_map was not
\* called (None)
Configs ==
    { [w |-> 1000, h |-> 1000, tile |-> 512, step |-> 256, blobs |-> Reef,
       radius_map |-> <<800, 300, 100>>],
      [w |-> 1000, h |-> 1000, tile |-> 1024, step |-> 256, blobs |-> SmallReef,
       radius_map |-> << >>],
      [w |-> 1600, h |-> 1200, tile |-> 512, step |-> 256, blobs |-> Reef,
       radius_map |-> <<1100, 300, 40>>] }

\* the normalization factors of a new object (0.0 each in the code: nothing
\* reads them before findAreas has set them)
NoNorm == [sn_min |-> << >>, sn_max |-> << >>, sc_min |-> << >>,
           sc_max |-> << >>, sP_min |-> << >>, sP_max |-> << >>]

NoCall == [op |-> "none", mode |-> "", regular |-> FALSE, oversampling |-> FALSE]

Init ==
    /\ \E c \in Configs :
          /\ map_w = Px(c.w)
          /\ map_h = Px(c.h)
          /\ tile_size = Px(c.tile)
          /\ step = Px(c.step)
          /\ blobs = c.blobs
          /\ radius_map = c.radius_map
    /\ rng \in Seeds
    /\ frequencies = << >>
    /\ radius_arg = << >>
    /\ box_args = <<UnsetArea, UnsetArea>>
    /\ intersection_area = 0
    /\ val_area = UnsetArea
    /\ test_area = UnsetArea
    /\ training_tiles = << >>
    /\ validation_tiles = << >>
    /\ test_tiles = << >>
    /\ cleaned_tiles = << >>
    /\ clean_arg = << >>
    /\ pc = "idle"
    /\ last = NoCall
    /\ outcome = "none"
    /\ j = 0
    /\ loc_val = UnsetArea
    /\ loc_test = UnsetArea
    /\ norm = NoNorm
    /\ i = 0
    /\ sn = << >>
    /\ sc = << >>
    /\ sP = << >>
    /\ area_info = << >>
    /\ found = << >>
    /\ sample_area = UnsetArea
    /\ samples = << >>

\* the specifications that take one draw per step draw each number freely:
\* they do not use the stream
InitFree == Init /\ rng = 0

\* ... on the square maps
InitFreeSquare == InitFree /\ map_w = map_h

UniformVal(delta) ==
    <<delta + Times(map_h - delta * 2, 70, 100), delta, map_w - delta * 2,
      Times(map_h, 15, 100)>>

UniformTest(delta) ==
    <<delta + Times(map_h - delta * 2, 85, 100), delta, map_w - delta * 2,
      Times(map_h, 15, 100)>>

\* setupAreas("UNIFORM")
SetupAreasUniform ==
    /\ pc = "idle"
    /\ LET delta == IntHalf(tile_size - crop_size)
       IN  /\ val_area' = UniformVal(delta)
           /\ test_area' = UniformTest(delta)
    /\ last' = [NoCall EXCEPT !.op = "setupAreas", !.mode = "UNIFORM"]
    /\ outcome' = "ok"
    /\ cleaned_tiles' = << >>
    /\ clean_arg' = << >>
    /\ UNCHANGED <<cfg, tilev, pc, randv, norm, i, searchv, samplev>>

\* the body of "for j in range(1000)": the locals val_area and test_area
\* after a draw (px1, py1, px2, py2)
RandomBody(v, t, px1, py1, px2, py2) ==
    LET area_w == AreaSide(map_w)
        area_h == AreaSide(map_h)
        area1 == <<px1, py1, area_w, area_h>>
        area2 == <<px2, py2, area_w, area_h>>
        intersection == bbox_intersection(area1, area2)
    IN  IF intersection < Area1 THEN <<area1, area2>> ELSE <<v, t>>

RandomHiX == map_w - AreaSide(map_w) - Px(1)
RandomHiY == map_h - AreaSide(map_h) - Px(1)

\* setupAreas("RANDOM"): entry, up to the loop
SetupAreasRandom ==
    /\ pc = "idle"
    /\ pc' = "random"
    /\ j' = 0
    /\ loc_val' = UnsetArea
    /\ loc_test' = UnsetArea
    /\ last' = [NoCall EXCEPT !.op = "setupAreas", !.mode = "RANDOM"]
    /\ outcome' = "running"
    /\ cleaned_tiles' = << >>
    /\ clean_arg' = << >>
    /\ UNCHANGED <<cfg, areav, tilev, norm, i, searchv, samplev>>

\* one iteration of "for j in range(1000)"
RandomTrial ==
    /\ pc = "random"
    /\ j < RandomTrials
    /\ \E px1 \in RandInt(0, RandomHiX), py1 \in RandInt(0, RandomHiY),
          px2 \in RandInt(0, RandomHiX), py2 \in RandInt(0, RandomHiY) :
          \E r \in {RandomBody(loc_val, loc_test, px1, py1, px2, py2)} :
              loc_val' = r[1] /\ loc_test' = r[2]
    /\ j' = j + 1
    /\ UNCHANGED <<cfg, areav, tilev, cleanv, pc, last, outcome, norm, i, searchv, samplev>>

\* the end of the loop and of setupAreas("RANDOM")
SetupAreasRandomReturn ==
    /\ pc = "random"
    /\ j = RandomTrials
    /\ val_area' = loc_val
    /\ test_area' = loc_test
    /\ pc' = "idle"
    /\ outcome' = "ok"
    /\ j' = 0
    /\ loc_val' = UnsetArea
    /\ loc_test' = UnsetArea
    /\ UNCHANGED <<cfg, tilev, cleanv, last, norm, i, searchv, samplev>>

\* the whole loop, on the draws of one random stream
RECURSIVE RandomLoop(_, _, _, _)
RandomLoop(jj, v, t, seed) ==
    IF jj = RandomTrials THEN <<v, t>>
    ELSE With(RandomBody(v, t,
                         RandIntOf(seed, 4 * jj, 0, RandomHiX),
                         RandIntOf(seed, 4 * jj + 1, 0, RandomHiY),
                         RandIntOf(seed, 4 * jj + 2, 0, RandomHiX),
                         RandIntOf(seed, 4 * jj + 3, 0, RandomHiY)),
              LAMBDA r : RandomLoop(jj + 1, r[1], r[2], seed))

\* setupAreas("RANDOM"), as one step
SetupAreasRandomCall ==
    /\ pc = "idle"
    /\ \E r \in {RandomLoop(0, UnsetArea, UnsetArea, rng)} :
          val_area' = r[1] /\ test_area' = r[2]
    /\ last' = [NoCall EXCEPT !.op = "setupAreas", !.mode = "RANDOM"]
    /\ outcome' = "ok"
    /\ cleaned_tiles' = << >>
    /\ clean_arg' = << >>
    /\ UNCHANGED <<cfg, tilev, pc, randv, norm, i, searchv, samplev>>

\* setupAreas("RANDOM"), one iteration of its loop per step
NextRandom ==
    \/ SetupAreasRandom
    \/ RandomTrial
    \/ SetupAreasRandomReturn

SpecRandom == InitFree /\ [][NextRandom]_vars

----------------------------------------------------------------------------
(* findAreas, one trial per step *)

Landscape == calculateMetrics(blobs, <<0, 0, map_w, map_h>>)

\* findAreas(target_classes): entry, up to the first loop
FindAreas ==
    /\ pc = "idle"
    /\ pc' = "phase1"
    /\ i' = 0
    /\ sn' = << >>
    /\ sc' = << >>
    /\ sP' = << >>
    /\ area_info' = << >>
    /\ found' = << >>
    /\ last' = [NoCall EXCEPT !.op = "findAreas"]
    /\ outcome' = "running"
    /\ cleaned_tiles' = << >>
    /\ clean_arg' = << >>
    /\ UNCHANGED <<cfg, areav, tilev, randv, norm, samplev>>

\* one iteration of "for i in range(500)"
Phase1Trial ==
    /\ pc = "phase1"
    /\ i < Phase1Trials
    /\ \E f \in AspectFactors :
         \E px \in RandInt(0, map_w - RegionW(f) - Px(1)),
            py \in RandInt(0, map_h - RegionH(f) - Px(1)) :
            \E s \in {rangeScore(calculateMetrics(blobs, <<py, px, RegionW(f), RegionH(f)>>),
                                  Landscape)} :
                /\ sn' = Append(sn, s.s1)
                /\ sc' = Append(sc, s.s2)
                /\ sP' = Append(sP, s.s3)
    /\ i' = i + 1
    /\ UNCHANGED <<cfg, areav, tilev, cleanv, pc, last, outcome, randv, norm,
                   area_info, found, samplev>>

\* the normalization factors, between the two loops
NormOf(qn, qc, qP) ==
    [sn_min |-> [c \in 1..NumClasses |-> ColMin(qn, c)],
     sn_max |-> [c \in 1..NumClasses |-> ColMax(qn, c)],
     sc_min |-> [c \in 1..NumClasses |-> ColMin(qc, c)],
     sc_max |-> [c \in 1..NumClasses |-> ColMax(qc, c)],
     sP_min |-> [c \in 1..NumClasses |-> ColMin(qP, c)],
     sP_max |-> [c \in 1..NumClasses |-> ColMax(qP, c)]]

Phase1Bounds ==
    /\ pc = "phase1"
    /\ i = Phase1Trials
    /\ norm' = NormOf(sn, sc, sP)
    /\ pc' = "phase2"
    /\ i' = 0
    /\ sn' = << >>
    /\ sc' = << >>
    /\ sP' = << >>
    /\ UNCHANGED <<cfg, areav, tilev, cleanv, last, outcome, randv, area_info,
                   found, samplev>>

\* a Phase-2 candidate
Candidate(area_bbox, nm) ==
    LET scores == calculateNormalizedScore(calculateMetrics(blobs, area_bbox),
                                           Landscape, nm)
    IN  [bbox |-> area_bbox, scores |-> scores,
         aggregated_score |-> FDivN(FSum(scores), Len(scores))]

\* one iteration of "for i in range(5000)"
Phase2Trial ==
    /\ pc = "phase2"
    /\ i < Phase2Trials
    /\ \E f \in AspectFactors :
         \E px \in RandInt(0, map_w - RegionW(f) - Px(1)),
            py \in RandInt(0, map_h - RegionH(f) - Px(1)) :
            area_info' = Append(area_info,
                                Candidate(<<py, px, RegionW(f), RegionH(f)>>, norm))
    /\ i' = i + 1
    /\ UNCHANGED <<cfg, areav, tilev, cleanv, pc, last, outcome, randv, norm,
                   sn, sc, sP, found, samplev>>

\* the indices of the candidates that intersect val_area by less than 10
Disjoint(q, varea) ==
    { k \in 1..Len(q) : bbox_intersection(varea, q[k].bbox) < Area10 }

\* the selection: <<val_area, test_area>>, or << >> when the loop binds no
\* test_area and "return val_area, test_area" raises UnboundLocalError
Selection(sorted) ==
    LET varea == sorted[1].bbox
        D == Disjoint(sorted, varea)
    IN  IF D = {} THEN << >>
        ELSE <<varea, sorted[CHOOSE k \in D : \A m \in D : k <= m].bbox>>

\* the sort, the selection and the return.  The sorted candidates stay in
\* area_info until the next call.
FindAreasReturn ==
    /\ pc = "phase2"
    /\ i = Phase2Trials
    /\ area_info' = ListSort(area_info)
    /\ found' = Selection(area_info')
    /\ outcome' = IF found' = << >> THEN "UnboundLocalError" ELSE "ok"
    /\ pc' = "idle"
    /\ i' = 0
    /\ UNCHANGED <<cfg, areav, tilev, cleanv, last, randv, norm, sn, sc, sP,
                   samplev>>

NextSearch ==
    \/ FindAreas
    \/ Phase1Trial
    \/ Phase1Bounds
    \/ Phase2Trial
    \/ FindAreasReturn

SpecSearch == InitFree /\ [][NextSearch]_vars

\* the area cut_tiles samples the training tiles in
WholeArea ==
    LET delta == IntHalf(tile_size)
    IN  <<delta, delta, map_w - delta * 2, map_h - delta * 2>>

----------------------------------------------------------------------------
(* sampleAreaImportanceSampling, one candidate point per step *)

\* the classes sampleAreaImportanceSampling samples blob by blob
classes == <<"Montipora_crust/patula", "Pocillopora_eydouxi", "Pocillopora",
             "Porite_massive", "Montipora_plate/flabellata">>

\* the blobs (their indices) in the order of
\* "for class_name in classes: for blob in self.blobs"
RECURSIVE BlobsOfClass(_, _)
BlobsOfClass(class_name, k) ==
    IF k > Len(blobs) THEN << >>
    ELSE (IF blobs[k].class_name = class_name THEN <<k>> ELSE << >>)
         \o BlobsOfClass(class_name, k + 1)

RECURSIVE BlobOrderFrom(_)
BlobOrderFrom(c) ==
    IF c > Len(classes) THEN << >>
    ELSE BlobsOfClass(classes[c], 1) \o BlobOrderFrom(c + 1)

BlobOrder == BlobOrderFrom(1)

\* the index of a class among the target classes, 0 for the others
ClassIndex(class_name) ==
    IF \E c \in 1..NumClasses : target_classes[c] = class_name
    THEN CHOOSE c \in 1..NumClasses : target_classes[c] = class_name
    ELSE 0

\* the last of the first k blobs that is painted over the pixel, or 0
RECURSIVE LastBlobOver(_, _, _)
LastBlobOver(y, x, k) ==
    IF k = 0 THEN 0
    ELSE IF /\ blobs[k].bbox[1] <= y /\ y < blobs[k].bbox[1] + blobs[k].bbox[4]
            /\ blobs[k].bbox[2] <= x /\ x < blobs[k].bbox[2] + blobs[k].bbox[3]
         THEN k
         ELSE LastBlobOver(y, x, k - 1)

\* self.labels[y, x]: the class of the last blob painted over the pixel
LabelAt(y, x) ==
    With(LastBlobOver(y, x, Len(blobs)),
         LAMBDA k : IF k = 0 THEN 0 ELSE ClassIndex(blobs[k].class_name))

\* numpy takes a negative index from the end of the axis
Wrap(x, size) == IF x < 0 THEN x + size ELSE x

\* self.radius_map[py, px] raises no IndexError
InMap(py, px) ==
    /\ 0 <= Wrap(py, map_h) /\ Wrap(py, map_h) < map_h
    /\ 0 <= Wrap(px, map_w) /\ Wrap(px, map_w) < map_w

\* self.radius_map[py, px], in pixels
RadiusAt(py, px) == radius_map[LabelAt(Wrap(py, map_h), Wrap(px, map_w)) + 1]

\* d < (r1 + r2) / 2.0 for the distance d of a sample and the point
\* (px, py), r2 being the radius at the sample
TooClose(sample, px, py, r1) ==
    With(r1 + RadiusAt(sample[2], sample[1]),
         LAMBDA rr :
            /\ rr > 0
            /\ 4 * (((sample[1] - px) \div Unit) * ((sample[1] - px) \div Unit)
                    + ((sample[2] - py) \div Unit) * ((sample[2] - py) \div Unit))
                  < rr * rr)

Done(current_samples) == [err |-> "", samples |-> current_samples]
Raised(exception) == [err |-> exception, samples |-> << >>]

\* the test of a candidate point against the last sample only
TrySampleLastOnly(current_samples, px, py) ==
    IF radius_map = << >> THEN Raised("TypeError")
    ELSE IF ~InMap(py, px) THEN Raised("IndexError")
    ELSE With(RadiusAt(py, px),
              LAMBDA r1 :
                 IF \A k \in Len(current_samples)..Len(current_samples) :
                        k >= 1 => ~TooClose(current_samples[k], px, py, r1)
                 THEN Done(Append(current_samples, <<px, py>>))
                 ELSE Done(current_samples))

\* the test of a candidate point (px, py) against all the samples
TrySample(current_samples, px, py) ==
    IF radius_map = << >> THEN Raised("TypeError")
    ELSE IF ~InMap(py, px) THEN Raised("IndexError")
    ELSE With(RadiusAt(py, px),
              LAMBDA r1 :
                 IF \A k \in 1..Len(current_samples) :
                        ~TooClose(current_samples[k], px, py, r1)
                 THEN Done(Append(current_samples, <<px, py>>))
                 ELSE Done(current_samples))

\* mask[py, px] == 1: a mask is full, or lacks its top left quarter
MaskAt(blob, py, px) ==
    blob.mask = "full" \/ 4 * px >= blob.bbox[3] \/ 4 * py >= blob.bbox[4]

\* one iteration of the loop of importanceSamplingBlob: the nx-th value of
\* randint(1, w - 1) and the ny-th value of randint(1, h - 1)
BlobTry(blob, current_samples, nx, ny) ==
    LET px == RandIntAt(Px(1), blob.bbox[3] - Px(1), nx)
        py == RandIntAt(Px(1), blob.bbox[4] - Px(1), ny)
    IN  IF MaskAt(blob, py, px)
        THEN TrySample(current_samples, px + blob.bbox[2], py + blob.bbox[1])
        ELSE Done(current_samples)

\* one iteration of the loop of importanceSamplingSubArea
SubAreaTry(area, current_samples, nx, ny) ==
    TrySample(current_samples,
              RandIntAt(area[2], area[2] + area[3] - Px(1), nx),
              RandIntAt(area[1], area[1] + area[4] - Px(1), ny))

\* the grid of sampleAreaImportanceSampling: tile_size = 1024, step = 256
GridTile == Px(1024)
GridStep == Px(256)

GridCols(area) == Max(0, 1 + TruncDiv(area[3], GridStep))
GridRows(area) == Max(0, 1 + TruncDiv(area[4], GridStep))

\* sub_area, for a row and a column of the grid
SubArea(area, row, col) ==
    LET top0 == area[1] + row * GridStep
        left0 == area[2] + col * GridStep
        left == IF left0 + GridTile > area[2] + area[3] - Px(1)
                THEN area[3] - GridTile - Px(1) ELSE left0
        top == IF top0 + GridTile > area[1] + area[4] - Px(1)
               THEN area[4] - GridTile - Px(1) ELSE top0
    IN  <<top, left, GridTile, GridTile>>

\* the candidate points of a call: SampleTries for each blob of the order,
\* then SampleTries for each sub-area, row by row
SampleSteps(order, area) ==
    (Len(order) + GridRows(area) * GridCols(area)) * SampleTries

\* the t-th candidate point of a call
SampleStep(order, area, t, current_samples, nx, ny) ==
    IF t < Len(order) * SampleTries
    THEN BlobTry(blobs[order[t \div SampleTries + 1]], current_samples, nx, ny)
    ELSE LET g == (t - Len(order) * SampleTries) \div SampleTries
         IN  SubAreaTry(SubArea(area, g \div GridCols(area), g % GridCols(area)),
                        current_samples, nx, ny)

\* sampleAreaImportanceSampling(area): entry
SampleAreaImportanceSampling ==
    /\ pc = "idle"
    /\ pc' = "sampling"
    /\ sample_area' = WholeArea
    /\ samples' = << >>
    /\ i' = 0
    /\ last' = [NoCall EXCEPT !.op = "sampleAreaImportanceSampling"]
    /\ outcome' = "running"
    /\ cleaned_tiles' = << >>
    /\ clean_arg' = << >>
    /\ UNCHANGED <<cfg, areav, tilev, randv, norm, searchv>>

\* one candidate point, accepted or rejected
SampleTry ==
    /\ pc = "sampling"
    /\ i < SampleSteps(BlobOrder, sample_area)
    /\ \E nx, ny \in 0..RandGrid :
          \E r \in {SampleStep(BlobOrder, sample_area, i, samples, nx, ny)} :
              IF r.err = ""
              THEN /\ samples' = r.samples
                   /\ i' = i + 1
                   /\ UNCHANGED <<pc, outcome>>
              ELSE /\ outcome' = r.err
                   /\ pc' = "idle"
                   /\ i' = 0
                   /\ UNCHANGED samples
    /\ UNCHANGED <<cfg, areav, tilev, cleanv, last, randv, norm, searchv,
                   sample_area>>

\* return samples
SampleReturn ==
    /\ pc = "sampling"
    /\ i = SampleSteps(BlobOrder, sample_area)
    /\ pc' = "idle"
    /\ outcome' = "ok"
    /\ i' = 0
    /\ UNCHANGED <<cfg, areav, tilev, cleanv, last, randv, norm, searchv, samplev>>

NextSampling ==
    \/ SampleAreaImportanceSampling
    \/ SampleTry
    \/ SampleReturn

SpecSampling == InitFreeSquare /\ [][NextSampling]_vars

----------------------------------------------------------------------------
(* The calls as single steps, on the draws of one random stream *)

\* the candidate points of a call, from the t-th on
RECURSIVE SampleLoop(_, _, _, _, _)
SampleLoop(order, area, seed, t, current_samples) ==
    IF t >= SampleSteps(order, area) THEN Done(current_samples)
    ELSE With(SampleStep(order, area, t, current_samples,
                         Draw(seed, 2 * t, RandGrid + 1),
                         Draw(seed, 2 * t + 1, RandGrid + 1)),
              LAMBDA r : IF r.err # "" THEN r
                         ELSE SampleLoop(order, area, seed, t + 1, r.samples))

sampleAreaImportanceSampling(area, seed) ==
    With(BlobOrder, LAMBDA order : SampleLoop(order, area, seed, 0, << >>))

\* the region of a trial of findAreas that starts at the k-th draw
RegionOf(seed, k) ==
    LET f == AspectFactorSeq[Draw(seed, k, Len(AspectFactorSeq)) + 1]
        px == RandIntOf(seed, k + 1, 0, map_w - RegionW(f) - Px(1))
        py == RandIntOf(seed, k + 2, 0, map_h - RegionH(f) - Px(1))
    IN  <<py, px, RegionW(f), RegionH(f)>>

\* findAreas(target_classes): the normalization factors and the selection
findAreas(seed) ==
    With([t \in 1..Phase1Trials |->
             rangeScore(calculateMetrics(blobs, RegionOf(seed, 3 * (t - 1))),
                        Landscape)],
         LAMBDA s :
    With(NormOf([t \in 1..Phase1Trials |-> s[t].s1],
                [t \in 1..Phase1Trials |-> s[t].s2],
                [t \in 1..Phase1Trials |-> s[t].s3]),
         LAMBDA nm :
    With([t \in 1..Phase2Trials |->
             Candidate(RegionOf(seed, 3 * (Phase1Trials + t - 1)), nm)],
         LAMBDA candidates :
            [norm |-> nm, found |-> Selection(ListSort(candidates))])))

\* setupAreas("BIOLOGICALLY-INSPIRED", target_classes)
SetupAreasBio ==
    /\ pc = "idle"
    /\ \E r \in {findAreas(rng)} :
          /\ norm' = r.norm
          /\ IF r.found = << >>
             THEN /\ outcome' = "UnboundLocalError"
                  /\ UNCHANGED areav
             ELSE /\ outcome' = "ok"
                  /\ val_area' = r.found[1]
                  /\ test_area' = r.found[2]
    /\ last' = [NoCall EXCEPT !.op = "setupAreas", !.mode = "BIOLOGICALLY-INSPIRED"]
    /\ cleaned_tiles' = << >>
    /\ clean_arg' = << >>
    /\ UNCHANGED <<cfg, tilev, pc, randv, i, searchv, samplev>>

\* a regular pass that leaves the test tiles as they were
RegularPassStaleTest(varea, tarea) ==
    [validation |-> sampleAreaUniformly(varea, tile_size, step),
     test |-> test_tiles,
     training |-> sampleAreaUniformly(WholeArea, tile_size, step)]

\* the three lists after "if regular is True"
RegularPass(varea, tarea) ==
    [validation |-> sampleAreaUniformly(varea, tile_size, step),
     test |-> sampleAreaUniformly(tarea, tile_size, step),
     training |-> sampleAreaUniformly(WholeArea, tile_size, step)]

\* cut_tiles(regular, oversampling)
CutTiles(regular, oversampling) ==
    /\ pc = "idle"
    /\ \E reg \in { IF regular
                      THEN RegularPass(val_area, test_area)
                      ELSE [validation |-> validation_tiles, test |-> test_tiles,
                            training |-> training_tiles] } :
          /\ validation_tiles' = reg.validation
          /\ test_tiles' = reg.test
          /\ IF oversampling
             THEN \E r \in {sampleAreaImportanceSampling(WholeArea, rng)} :
                     IF r.err = ""
                     THEN training_tiles' = r.samples /\ outcome' = "ok"
                     ELSE training_tiles' = reg.training /\ outcome' = r.err
             ELSE training_tiles' = reg.training /\ outcome' = "ok"
    /\ last' = [NoCall EXCEPT !.op = "cut_tiles", !.regular = regular,
                              !.oversampling = oversampling]
    /\ cleaned_tiles' = << >>
    /\ clean_arg' = << >>
    /\ UNCHANGED <<cfg, areav, pc, randv, norm, i, searchv, samplev>>

\* tiles to call cleanTrainingTiles with: their boxes reach 20 pixels wide
\* and 0.4 or 0.5 pixels high into the upper left corner of the validation
\* area, or into the lower right corner of the test area
ProbeTiles(varea, tarea) ==
    LET half_size == (crop_size + Px(10)) \div 2
    IN  { <<varea[2] - half_size + Px(20), varea[1] - half_size + dy>> :
            dy \in {4, 5} }
        \cup
        { <<tarea[2] + tarea[3] + half_size - Px(20),
            tarea[1] + tarea[4] + half_size - dy>> : dy \in {4, 5} }

\* cleanTrainingTiles(tiles)
CleanTrainingTiles ==
    /\ pc = "idle"
    /\ \E tiles \in {training_tiles}
                    \cup { <<p>> : p \in ProbeTiles(val_area, test_area) } :
          /\ clean_arg' = tiles
          /\ cleaned_tiles' = cleanTrainingTiles(tiles, val_area, test_area)
    /\ last' = [NoCall EXCEPT !.op = "cleanTrainingTiles"]
    /\ outcome' = "ok"
    /\ UNCHANGED <<cfg, areav, tilev, pc, randv, norm, i, searchv, samplev>>

\* the object's calls, each as one step
Next ==
    \/ SetupAreasUniform
    \/ SetupAreasRandomCall
    \/ SetupAreasBio
    \/ \E regular, oversampling \in BOOLEAN : CutTiles(regular, oversampling)
    \/ CleanTrainingTiles

Spec == Init /\ [][Next]_vars

----------------------------------------------------------------------------
(* computeFrequencies and compute_radius_map *)

\* the lists of target classes computeFrequencies is called with
TargetLists ==
    { target_classes, <<"Montipora_capitata">>, <<"Porite_massive">>,
      <<"Pocillopora", "Montipora_patula">> }

\* computeFrequencies(target_classes): the frequency of each class, as the
\* number of its pixels; the code divides each by the same area_map, which
\* cancels in the normalization of compute_radius_map
computeFrequencies(bs, tc) == [c \in 1..Len(tc) |-> ClassArea(bs, tc[c], 1)]

\* the array "radius" of compute_radius_map before it is normalized: the
\* sum of the frequencies for the background, then the frequencies
RawValues(freqs) == <<SeqSum(freqs)>> \o freqs

RECURSIVE SeqMin(_)
SeqMin(q) == IF Len(q) = 1 THEN q[1] ELSE Min(Head(q), SeqMin(Tail(q)))

RECURSIVE SeqMax(_)
SeqMax(q) == IF Len(q) = 1 THEN q[1] ELSE Max(Head(q), SeqMax(Tail(q)))

\* (x * scale) + offset of a numpy float x and two numbers of pixels, in
\* SC-ths of a pixel
FScale(x, scale, offset) ==
    IF x.t = "fin" THEN Fin(x.v * scale + offset * SC)
    ELSE IF x.t = "nan" \/ scale = 0 THEN NaN
    ELSE Inf(IF scale > 0 THEN x.v ELSE -x.v)

\* compute_radius_map with the normalized frequency inverted
compute_radius_mapInverted(freqs, radius_min, radius_max) ==
    LET radius == RawValues(freqs)
        f_min == SeqMin(radius)
        f_max == SeqMax(radius)
    IN  [k \in 1..Len(radius) |->
            FScale(FDiv(f_max - radius[k], f_max - f_min),
                   radius_max - radius_min, radius_min)]

\* compute_radius_map(radius_min, radius_max): the radius of each class
\* index (the background first), which the code paints over the pixels of
\* the index before it smooths the map
compute_radius_map(freqs, radius_min, radius_max) ==
    LET radius == RawValues(freqs)
        f_min == SeqMin(radius)
        f_max == SeqMax(radius)
    IN  [k \in 1..Len(radius) |->
            FScale(FDiv(radius[k] - f_min, f_max - f_min),
                   radius_max - radius_min, radius_min)]

\* the pairs <<radius_min, radius_max>> compute_radius_map is called with,
\* in pixels
RadiusRanges == { <<10, 100>>, <<20, 60>>, <<50, 50>>, <<100, 10>> }

\* computeFrequencies(target_classes)
ComputeFrequencies ==
    /\ pc = "idle"
    /\ \E tc \in TargetLists : frequencies' = computeFrequencies(blobs, tc)
    /\ last' = [NoCall EXCEPT !.op = "computeFrequencies"]
    /\ outcome' = "ok"
    /\ UNCHANGED <<map_w, map_h, tile_size, step, blobs, radius_map, rng,
                   radius_arg, box_args, intersection_area, areav, tilev, cleanv,
                   pc, randv, norm, i, searchv, samplev>>

\* compute_radius_map(radius_min, radius_max), once the frequencies are
\* computed; here radius_map holds the radius of each class index, a numpy
\* float in SC-ths of a pixel
ComputeRadiusMap ==
    /\ pc = "idle"
    /\ frequencies # << >>
    /\ \E range \in RadiusRanges :
          /\ radius_map' = compute_radius_map(frequencies, range[1], range[2])
          /\ radius_arg' = [frequencies |-> frequencies,
                            radius_min |-> range[1], radius_max |-> range[2]]
    /\ last' = [NoCall EXCEPT !.op = "compute_radius_map"]
    /\ outcome' = "ok"
    /\ UNCHANGED <<map_w, map_h, tile_size, step, blobs, rng, frequencies,
                   box_args, intersection_area, areav, tilev, cleanv, pc, randv,
                   norm, i, searchv, samplev>>

NextRadius ==
    \/ ComputeFrequencies
    \/ ComputeRadiusMap

SpecRadius == InitFree /\ [][NextRadius]_vars

----------------------------------------------------------------------------
(* bbox_intersection on its own *)

\* the boxes (top, left, width, height) bbox_intersection is called with:
\* corners on a grid of 10 pixels, extents below, at and above zero
Boxes ==
    { <<Px(top), Px(left), Px(w), Px(h)>> :
         top \in {0, 10}, left \in {0, 10}, w \in {-10, 10, 20},
         h \in {-10, 0, 10} }

\* bbox_intersection(bbox1, bbox2)
BboxIntersection ==
    /\ pc = "idle"
    /\ \E bbox1, bbox2 \in Boxes :
          /\ box_args' = <<bbox1, bbox2>>
          /\ intersection_area' = bbox_intersection(bbox1, bbox2)
    /\ last' = [NoCall EXCEPT !.op = "bbox_intersection"]
    /\ outcome' = "ok"
    /\ UNCHANGED <<map_w, map_h, tile_size, step, blobs, radius_map, rng,
                   frequencies, radius_arg, areav, tilev, cleanv, pc, randv,
                   norm, i, searchv, samplev>>

NextBoxes == BboxIntersection

SpecBoxes == InitFree /\ [][NextBoxes]_vars

----------------------------------------------------------------------------
(* sampleAreaImportanceSampling on regions of at least the coarse tile *)

\* the map that holds a coarse tile
InitFreeWide == InitFree /\ map_w > map_h

\* the areas sampleAreaImportanceSampling is called with: the whole map,
\* and a region of it with a top and a left offset
Regions ==
    { <<0, 0, map_w, map_h>>, <<Px(64), Px(256), Px(1088), Px(1100)>> }

\* sampleAreaImportanceSampling(area): entry
SampleAreaImportanceSamplingOf(area) ==
    /\ pc = "idle"
    /\ pc' = "sampling"
    /\ sample_area' = area
    /\ samples' = << >>
    /\ i' = 0
    /\ last' = [NoCall EXCEPT !.op = "sampleAreaImportanceSampling"]
    /\ outcome' = "running"
    /\ cleaned_tiles' = << >>
    /\ clean_arg' = << >>
    /\ UNCHANGED <<cfg, areav, tilev, randv, norm, searchv>>

NextGrid ==
    \/ \E area \in Regions : SampleAreaImportanceSamplingOf(area)
    \/ SampleTry
    \/ SampleReturn

SpecGrid == InitFreeWide /\ [][NextGrid]_vars

----------------------------------------------------------------------------
(* The claims *)

FLeq(a, b) == FLess(a, b) \/ (a.t # "nan" /\ a = b)

SearchDone == pc = "idle" /\ last.op = "findAreas"

\* C1: when no candidate of the scored search intersects the validation
\* region by less than 10, findAreas ends by reporting that no disjoint
\* region was found (and by nothing else).
C1_ExhaustedSearchIsReported ==
    (SearchDone /\ Disjoint(area_info, area_info[1].bbox) = {})
        => outcome = "SearchExhausted"

\* C1 witness: a search whose candidates all intersect the best one ended
\* with the UnboundLocalError of "return val_area, test_area"
C1_Witness ==
    /\ SearchDone
    /\ Len(area_info) = Phase2Trials
    /\ Disjoint(area_info, area_info[1].bbox) = {}
    /\ outcome = "UnboundLocalError"

\* C2: the validation region findAreas returns is a candidate of minimum
\* aggregated score, the candidates are in ascending order of score, the
\* test region is the first of them that intersects the validation region
\* by less than 10, and it is another region than the validation region.
C2_BestAndFirstDisjoint ==
    (SearchDone /\ outcome = "ok") =>
        LET D == Disjoint(area_info, found[1])
        IN  /\ found[1] = area_info[1].bbox
            /\ \A m \in 1..Len(area_info) :
                  FLeq(area_info[1].aggregated_score, area_info[m].aggregated_score)
            /\ \A a, b \in 1..Len(area_info) :
                  a < b => FLeq(area_info[a].aggregated_score,
                                area_info[b].aggregated_score)
            /\ D # {}
            /\ found[2] = area_info[CHOOSE k \in D : \A m \in D : k <= m].bbox
            /\ bbox_intersection(found[1], found[2]) < Area10
            /\ found[2] # found[1]

\* C2 witness: a search returned a validation region whose score is nan
\* while the score of another candidate is not
C2_Witness ==
    /\ SearchDone
    /\ outcome = "ok"
    /\ area_info[1].aggregated_score.t = "nan"
    /\ \E m \in 1..Len(area_info) : area_info[m].aggregated_score.t # "nan"

\* C3: setupAreas in RANDOM mode never finishes normally with val_area and
\* test_area unset or overlapping: when it returns, they are a drawn pair
\* that intersects by less than the threshold.
C3_RandomSetsDisjointPair ==
    (pc = "idle" /\ last.op = "setupAreas" /\ last.mode = "RANDOM"
     /\ outcome = "ok")
        => /\ val_area # UnsetArea
           /\ test_area # UnsetArea
           /\ val_area[3] = AreaSide(map_w) /\ test_area[3] = AreaSide(map_w)
           /\ val_area[4] = AreaSide(map_h) /\ test_area[4] = AreaSide(map_h)
           /\ bbox_intersection(val_area, test_area) < Area1

\* C3 witness: the loop ended, no drawn pair was accepted, and setupAreas
\* returned with both areas unset
C3_Witness ==
    /\ pc = "idle"
    /\ last.op = "setupAreas"
    /\ last.mode = "RANDOM"
    /\ outcome = "ok"
    /\ val_area = UnsetArea
    /\ test_area = UnsetArea

\* C4: after setupAreas in UNIFORM mode each of val_area and test_area has
\* the height 0.15 * map_h, the test region starts at or after the bottom
\* edge of the validation region, and the two take 30% of the map height.
C4_UniformBandsDisjoint ==
    (last.op = "setupAreas" /\ last.mode = "UNIFORM")
        => /\ val_area[4] = Times(map_h, 15, 100)
           /\ test_area[4] = Times(map_h, 15, 100)
           /\ test_area[1] >= val_area[1] + val_area[4]
           /\ val_area[4] + test_area[4] = Times(map_h, 30, 100)

\* C4 witness: the test band starts above the bottom edge of the validation
\* band
C4_Witness ==
    /\ last.op = "setupAreas"
    /\ last.mode = "UNIFORM"
    /\ tile_size > crop_size
    /\ test_area[1] < val_area[1] + val_area[4]

\* distance(p, q) >= (radius_map(p) + radius_map(q)) / 2, on the squares
FarEnough(p, q) ==
    LET dx == (p[1] - q[1]) \div Unit
        dy == (p[2] - q[2]) \div Unit
        rr == RadiusAt(p[2], p[1]) + RadiusAt(q[2], q[1])
    IN  rr <= 0 \/ 4 * (dx * dx + dy * dy) >= rr * rr

MaxOverlap(tile) ==
    Max(bbox_intersection(CleanBox(tile), val_area),
        bbox_intersection(CleanBox(tile), test_area))

CleanDone == pc = "idle" /\ last.op = "cleanTrainingTiles"

\* C6 (as stated): cleanTrainingTiles returns the tiles it was given, in
\* their order, but those whose box intersects the validation or the test
\* region by more than 10; a tile whose larger intersection is exactly 10
\* is kept.
C6_DropsAboveTen ==
    CleanDone =>
        cleaned_tiles = SelectSeq(clean_arg, LAMBDA t : MaxOverlap(t) <= Area10)

\* C6 (amended): cleanTrainingTiles returns the tiles it was given, in
\* their order, but those whose box intersects the validation or the test
\* region by 10 or more; a tile whose larger intersection is exactly 10 is
\* dropped.
C6_DropsFromTen ==
    CleanDone =>
        cleaned_tiles = SelectSeq(clean_arg, LAMBDA t : MaxOverlap(t) < Area10)

\* C6 witness: a tile that intersects a region by exactly 10 was dropped
C6_Witness ==
    /\ CleanDone
    /\ \E k \in 1..Len(clean_arg) :
          /\ MaxOverlap(clean_arg[k]) = Area10
          /\ \A m \in 1..Len(cleaned_tiles) : cleaned_tiles[m] # clean_arg[k]

\* the centre of a tile lies in an area
CentreIn(tile, area) ==
    /\ area[2] <= tile[1] /\ tile[1] < area[2] + area[3]
    /\ area[1] <= tile[2] /\ tile[2] < area[1] + area[4]

\* C7: once cut_tiles has produced training tiles, no training tile has
\* its centre in the current validation area or in the current test area.
C7_TrainingOutsideHeldOut ==
    pc = "idle" =>
        \A k \in 1..Len(training_tiles) :
            /\ ~CentreIn(training_tiles[k], val_area)
            /\ ~CentreIn(training_tiles[k], test_area)

\* C7 witness: after setupAreas and a regular cut_tiles a training tile has
\* its centre in the validation area
C7_Witness ==
    /\ pc = "idle"
    /\ last.op = "cut_tiles"
    /\ last.regular
    /\ val_area # UnsetArea
    /\ validation_tiles = sampleAreaUniformly(val_area, tile_size, step)
    /\ \E k \in 1..Len(training_tiles) : CentreIn(training_tiles[k], val_area)

CutDone == pc = "idle" /\ last.op = "cut_tiles" /\ outcome = "ok"

\* C8 (as stated): after every call of cut_tiles, whatever its flags, the
\* three lists are the ones sampled by that call from the current val_area
\* and test_area.
C8_AllListsRegenerated ==
    CutDone =>
        /\ validation_tiles = sampleAreaUniformly(val_area, tile_size, step)
        /\ test_tiles = sampleAreaUniformly(test_area, tile_size, step)
        /\ training_tiles =
              IF last.oversampling
              THEN sampleAreaImportanceSampling(WholeArea, rng).samples
              ELSE sampleAreaUniformly(WholeArea, tile_size, step)

\* C8 (amended): a call of cut_tiles with regular = True regenerates the
\* validation and the test tiles from the current val_area and test_area
\* and the training tiles from the whole area; with regular = False it
\* leaves the validation and the test tiles as they were; with
\* oversampling = True the training tiles are the ones of the importance
\* sampling, and with both flags False they are left as they were.
C8_RegeneratedWhenRegular ==
    [][(last'.op = "cut_tiles" /\ outcome' = "ok") =>
          /\ validation_tiles' =
                IF last'.regular
                THEN sampleAreaUniformly(val_area', tile_size, step)
                ELSE validation_tiles
          /\ test_tiles' =
                IF last'.regular
                THEN sampleAreaUniformly(test_area', tile_size, step)
                ELSE test_tiles
          /\ training_tiles' =
                IF last'.oversampling
                THEN sampleAreaImportanceSampling(WholeArea, rng).samples
                ELSE IF last'.regular
                     THEN sampleAreaUniformly(WholeArea, tile_size, step)
                     ELSE training_tiles]_vars

\* C8 witness: a call with regular = False after the areas were changed:
\* the validation and the test tiles are those of earlier areas
C8_Witness ==
    /\ CutDone
    /\ ~last.regular
    /\ last.oversampling
    /\ validation_tiles # << >>
    /\ validation_tiles # sampleAreaUniformly(val_area, tile_size, step)
    /\ test_tiles # sampleAreaUniformly(test_area, tile_size, step)

\* the square of a tile lies in an area
TileIn(tile, tsize, area) ==
    /\ area[1] <= tile[2] - tsize \div 2
    /\ area[2] <= tile[1] - tsize \div 2
    /\ tile[2] + tsize \div 2 <= area[1] + area[4]
    /\ tile[1] + tsize \div 2 <= area[2] + area[3]

\* an area a tile fits in
Fits(area) == area[3] >= tile_size /\ area[4] >= tile_size

\* C9: every tile sampleAreaUniformly returns lies fully inside the area it
\* was given (here: the validation, the test and the whole area, as
\* cut_tiles samples them, when a tile fits in the area).
C9_UniformTilesInside ==
    (pc = "idle" /\ last.op = "cut_tiles" /\ last.regular /\ ~last.oversampling) =>
        /\ Fits(val_area) =>
              \A k \in 1..Len(validation_tiles) :
                  TileIn(validation_tiles[k], tile_size, val_area)
        /\ Fits(test_area) =>
              \A k \in 1..Len(test_tiles) :
                  TileIn(test_tiles[k], tile_size, test_area)
        /\ Fits(WholeArea) =>
              \A k \in 1..Len(training_tiles) :
                  TileIn(training_tiles[k], tile_size, WholeArea)

\* C9 witness: a tile fits in the whole area, and a training tile sampled
\* in it starts left of it
C9_Witness ==
    /\ pc = "idle"
    /\ last.op = "cut_tiles"
    /\ last.regular
    /\ ~last.oversampling
    /\ Fits(WholeArea)
    /\ \E k \in 1..Len(training_tiles) :
          training_tiles[k][1] - tile_size \div 2 < WholeArea[2]

\* a / b, but the midpoint 0.5 when b = 0
FDivOrHalf(a, b) == IF b = 0 THEN Fin(SC \div 2) ELSE FDiv(a, b)

\* the per-class scores of a region when a degenerate bound gives 0.5
MidpointScores(area_bbox) ==
    LET m == calculateMetrics(blobs, area_bbox)
    IN  [c \in 1..NumClasses |->
            IF Landscape.number[c] > 0
            THEN FDivN(FAdd(FAdd(
                    FDivOrHalf(S1(m, Landscape, c) - norm.sn_min[c],
                               norm.sn_max[c] - norm.sn_min[c]),
                    FDivOrHalf(S2(m, Landscape, c) - norm.sc_min[c],
                               norm.sc_max[c] - norm.sc_min[c])),
                    FDivOrHalf(S3(m, Landscape, c) - norm.sP_min[c],
                               norm.sP_max[c] - norm.sP_min[c])), 3)
            ELSE Fin(0)]

\* C10: with a degenerate Phase-1 bound (max = min) the normalized
\* component is 0.5, and the per-class scores and the aggregated score of
\* every Phase-2 candidate are finite numbers.
C10_DegenerateBoundGivesMidpoint ==
    \A k \in 1..Len(area_info) :
        /\ area_info[k].aggregated_score.t = "fin"
        /\ \A c \in 1..NumClasses : area_info[k].scores[c].t = "fin"
        /\ area_info[k].scores = MidpointScores(area_info[k].bbox)

\* C10 witness: a candidate scored with a degenerate bound has a score
\* that is no number
C10_Witness ==
    /\ pc = "phase2"
    /\ \E c \in 1..NumClasses :
          /\ Landscape.number[c] > 0
          /\ norm.sP_max[c] = norm.sP_min[c]
    /\ \E k \in 1..Len(area_info) : area_info[k].aggregated_score.t # "fin"

\* compute_radius_map was the last call
RadiusDone == last.op = "compute_radius_map"

\* the raw per-index values the last compute_radius_map worked on
RadiusRaw == RawValues(radius_arg.frequencies)

\* all of them are equal
RawAllEqual == \A a, b \in 1..Len(RadiusRaw) : RadiusRaw[a] = RadiusRaw[b]

\* C11: when the raw per-index values are all equal, every radius computed
\* by compute_radius_map is radius_min + 0.5 * (radius_max - radius_min).
C11_EqualFrequenciesGiveMidpoint ==
    (RadiusDone /\ RawAllEqual)
        => \A k \in 1..Len(radius_map) :
              radius_map[k]
                 = Fin(radius_arg.radius_min * SC
                       + (SC \div 2)
                         * (radius_arg.radius_max - radius_arg.radius_min))

\* C11 witness: compute_radius_map has run on equal raw values (a single
\* target class) with a frequency above zero, and a radius is no number
C11_Witness ==
    /\ RadiusDone
    /\ RawAllEqual
    /\ RadiusRaw[1] > 0
    /\ \E k \in 1..Len(radius_map) : radius_map[k].t = "nan"

\* C12: with radius_min < radius_max, of two class indices whose raw
\* frequency values differ the one with the lower frequency has the
\* strictly larger radius.
C12_RarerGetsLargerRadius ==
    (RadiusDone /\ radius_arg.radius_min < radius_arg.radius_max)
        => \A a, b \in 1..Len(RadiusRaw) :
              RadiusRaw[a] < RadiusRaw[b]
                 => FLess(radius_map[b], radius_map[a])

\* C12 as the code has it: with radius_min < radius_max, of two class
\* indices whose raw frequency values differ the one with the lower
\* frequency never has the larger radius; the lowest frequency has exactly
\* radius_min, and the highest a strictly larger radius.
C12_RarerGetsSmallerRadius ==
    (RadiusDone /\ radius_arg.radius_min < radius_arg.radius_max)
        => \A a, b \in 1..Len(RadiusRaw) :
              RadiusRaw[a] < RadiusRaw[b]
                 => /\ FLeq(radius_map[a], radius_map[b])
                    /\ RadiusRaw[a] = SeqMin(RadiusRaw)
                          => radius_map[a] = Fin(radius_arg.radius_min * SC)
                    /\ (/\ RadiusRaw[a] = SeqMin(RadiusRaw)
                        /\ RadiusRaw[b] = SeqMax(RadiusRaw))
                          => FLess(radius_map[a], radius_map[b])

\* C12 witness: compute_radius_map has run with radius_min < radius_max on
\* three different raw values, and the radii are in the order of the
\* frequencies
C12_Witness ==
    /\ RadiusDone
    /\ radius_arg.radius_min < radius_arg.radius_max
    /\ \E a, b, c \in 1..Len(RadiusRaw) :
          /\ RadiusRaw[a] < RadiusRaw[b]
          /\ RadiusRaw[b] < RadiusRaw[c]
          /\ FLess(radius_map[a], radius_map[b])
          /\ FLess(radius_map[b], radius_map[c])

\* bbox_intersection was the last call
BoxDone == last.op = "bbox_intersection"

WellFormed(box) == box[3] >= 0 /\ box[4] >= 0

\* one box lies entirely to the side of, above or below the other
Apart(a, b) ==
    \/ a[2] + a[3] <= b[2]
    \/ b[2] + b[3] <= a[2]
    \/ a[1] + a[4] <= b[1]
    \/ b[1] + b[4] <= a[1]

\* C13: bbox_intersection(A, A) is A.width * A.height for a well-formed
\* box A; it is 0 for two boxes one of which lies entirely to the side of,
\* above or below the other; and it is 0 whenever one of the boxes has a
\* negative width or height.
C13_IntersectionOfBoxes ==
    BoxDone =>
        /\ (box_args[1] = box_args[2] /\ WellFormed(box_args[1]))
              => intersection_area = box_args[1][3] * box_args[1][4]
        /\ (/\ WellFormed(box_args[1])
            /\ WellFormed(box_args[2])
            /\ Apart(box_args[1], box_args[2]))
              => intersection_area = 0
        /\ (~WellFormed(box_args[1]) \/ ~WellFormed(box_args[2]))
              => intersection_area = 0

\* C13 witness: a box of negative width was intersected with a well-formed
\* box that spans it, and the result is 0
C13_Witness ==
    /\ BoxDone
    /\ box_args[1][3] < 0
    /\ box_args[1][4] > 0
    /\ WellFormed(box_args[2])
    /\ box_args[2][2] <= box_args[1][2] + box_args[1][3]
    /\ box_args[1][2] <= box_args[2][2] + box_args[2][3]
    /\ box_args[2][1] = box_args[1][1]
    /\ box_args[2][4] = box_args[1][4]
    /\ intersection_area = 0

\* the steps of a call before the coarse-grid pass
BlobSteps == Len(BlobOrder) * SampleTries

\* the sub-area of the g-th cell of the coarse grid of the running call
GridSubArea(g) ==
    SubArea(sample_area, g \div GridCols(sample_area),
            g % GridCols(sample_area))

\* the cells of the coarse grid whose sub-area has been handed to
\* importanceSamplingSubArea by the running call
CellsHanded ==
    IF pc = "sampling" /\ i > BlobSteps
    THEN 0..((i - BlobSteps - 1) \div SampleTries)
    ELSE {}

\* the sub-area lies inside the region
SubInside(sub, area) ==
    /\ area[1] <= sub[1]
    /\ area[2] <= sub[2]
    /\ sub[1] + GridTile <= area[1] + area[4]
    /\ sub[2] + GridTile <= area[2] + area[3]

\* C14: for a region at least 1024 wide and high, every sub-area the
\* coarse-grid pass hands to importanceSamplingSubArea lies inside the
\* region.
C14_SubAreasInsideRegion ==
    (sample_area[3] >= GridTile /\ sample_area[4] >= GridTile)
        => \A g \in CellsHanded : SubInside(GridSubArea(g), sample_area)

\* C14 witness: in a region at least 1024 wide and high with a left offset,
\* the sub-area of a cell of the last column was handed over, moved by the
\* edge correction to the left of the region
C14_Witness ==
    /\ sample_area[3] >= GridTile
    /\ sample_area[4] >= GridTile
    /\ sample_area[2] > 0
    /\ \E g \in CellsHanded :
          /\ g % GridCols(sample_area) = GridCols(sample_area) - 1
          /\ GridSubArea(g)[2] < sample_area[2]

\* a region (top, left, width, height) lies fully inside the map
InsideMap(area) ==
    /\ area[1] >= 0
    /\ area[2] >= 0
    /\ area[2] + area[3] <= map_w
    /\ area[1] + area[4] <= map_h

\* setupAreas has stored regions it placed at random
RandomlyPlaced ==
    /\ last.op = "setupAreas"
    /\ last.mode \in {"RANDOM", "BIOLOGICALLY-INSPIRED"}
    /\ outcome = "ok"

\* C15: the regions setupAreas stores in val_area and test_area in RANDOM
\* and in BIOLOGICALLY-INSPIRED mode, read as (top, left, width, height),
\* lie fully inside the map, and so do the candidate regions of findAreas.
C15_RandomRegionsInsideMap ==
    /\ RandomlyPlaced => (InsideMap(val_area) /\ InsideMap(test_area))
    /\ \A k \in 1..Len(area_info) : InsideMap(area_info[k].bbox)

\* C15 witness: setupAreas("RANDOM") has stored a pair of regions on a map
\* wider than high, and one of the two reaches below the map
C15_Witness ==
    /\ RandomlyPlaced
    /\ last.mode = "RANDOM"
    /\ map_w > map_h
    /\ val_area # UnsetArea
    /\ \/ val_area[1] + val_area[4] > map_h
       \/ test_area[1] + test_area[4] > map_h

\* the regions of findAreas alone: the stored pair of the
\* BIOLOGICALLY-INSPIRED mode and the candidates of Phase 2
FindAreasRegionsInsideMap ==
    /\ (RandomlyPlaced /\ last.mode = "BIOLOGICALLY-INSPIRED")
          => (InsideMap(val_area) /\ InsideMap(test_area))
    /\ \A k \in 1..Len(area_info) : InsideMap(area_info[k].bbox)
    /\ \A k \in 1..Len(found) : InsideMap(found[k])

====
